---- MODULE Spec2Model ----
(***************************************************************************)
(* A model of funding_bot.py: the reconnect loop (connect), the serial     *)
(* consumer (consume), the message classifier and handler (dispatch), the  *)
(* offer ledger (update_offer), the market state and the decision pass     *)
(* (make_offer_decision), split at every await on ws.send.                 *)
(*                                                                         *)
(* Numbers are scaled to integers: amounts in USD, rates in 1e-4 per day,  *)
(* times in milliseconds.  A decoded JSON message is a record that keeps   *)
(* what dispatch reads of it: its type, its length, message[0], message[1] *)
(* and the payload in message[2].                                          *)
(***************************************************************************)
EXTENDS Integers, Sequences, FiniteSets, TLC

VARIABLES
  argc,                  \* len(sys.argv), fixed when the program starts
  pc,                    \* where the connect/consume coroutine stands
  lock,                  \* TRUE while the asyncio.Lock is held
  funding_available_usd, \* module global
  active_offers,         \* module global: the dict, in insertion order
  last_bid_rate,         \* module global
  last_bid_period,       \* module global
  current_time,          \* local of make_offer_decision (0 outside a pass)
  pos,                   \* position of the loop over active_offers.keys()
  sent,                  \* what the handling of the current message has sent
  hdr,                   \* history: the current message without message[2]
  ev,                    \* history: the branch of dispatch the message took
  err,                   \* history: what raised, while in the except clause
  decided,               \* history: make_offer_decision was entered
  phase,                 \* history: the handshake events seen on this connection
  lastRec                \* history: per offer id, the last record applied

vars == <<argc, pc, lock, funding_available_usd, active_offers, last_bid_rate,
          last_bid_period, current_time, pos, sent, hdr, ev, err, decided,
          phase, lastRec>>

ledger == <<active_offers>>
market == <<funding_available_usd, last_bid_rate, last_bid_period>>

----------------------------------------------------------------------------
(* Program constants and the initial values of the module globals.         *)

max_offer_pending_time == 120
min_offer_amount == 50
funding_available_usd0 == 0
last_bid_rate0 == 0
last_bid_period0 == 30
ExpectedArgc == 2

----------------------------------------------------------------------------
(* Bounds and input domains.                                               *)

MaxSnapLen == 2

ArgCounts == {1, 2}
Channels == {0, 5}
OfferIds == {1, 2}
OfferTerms == {<<0, 10, 3>>, <<1000, 20, 4>>}   \* <<time, amount, rate>>, ms
ClockValues == {120000, 121000}            \* readings of datetime.now(), ms
Balances == {10, 50}
TickerPairs == {<<2, 2>>, <<5, 7>>}        \* <<bid rate, bid period>>
Tags == {"hb", "wu", "fos", "fon", "fou", "foc", "fte", "te"}

RECURSIVE SeqsUpTo(_, _)
SeqsUpTo(S, n) ==
  IF n = 0 THEN {<<>>}
  ELSE LET shorter == SeqsUpTo(S, n - 1)
       IN  shorter \cup {Append(s, x) : s \in {t \in shorter : Len(t) = n - 1}, x \in S}

----------------------------------------------------------------------------
(* Decoded messages.                                                       *)

NoInner == [n |-> 0, nested |-> FALSE, rate |-> 0, period |-> 0]
NoWallet == [n |-> 0, wtype |-> "none", cur |-> "none", bal |-> 0]
NoOffer == [short |-> TRUE, id |-> 0, time |-> 0, amount |-> 0, rate |-> 0,
            status |-> "none"]

\* message[2] of "fon"/"fou"/"foc", and each item of message[2] of "fos".
\* short: the record has fewer than 15 elements.
ActiveRecords ==
  {[short |-> FALSE, id |-> i, time |-> a[1], amount |-> a[2], rate |-> a[3],
    status |-> "ACTIVE"] : i \in OfferIds, a \in OfferTerms}
ClosedRecords ==
  {[short |-> FALSE, id |-> i, time |-> 0, amount |-> 10, rate |-> 3,
    status |-> "EXECUTED"] : i \in OfferIds}
ShortRecords ==
  {[short |-> TRUE, id |-> 1, time |-> 0, amount |-> 10, rate |-> 3,
    status |-> "ACTIVE"]}
OfferRecords == ActiveRecords \cup ClosedRecords \cup ShortRecords

\* message[2] of "wu": n is its length.
Wallets ==
  {[n |-> 5, wtype |-> w, cur |-> c, bal |-> b] :
     w \in {"funding", "exchange"}, c \in {"USD", "BTC"}, b \in Balances}
  \cup {[n |-> k, wtype |-> w, cur |-> c, bal |-> 0] :
     k \in {1, 2}, w \in {"funding", "exchange"}, c \in {"USD", "BTC"}}
  \cup {NoWallet}

\* message[1] when it is a list: n is its length, nested says that its first
\* element is a list, rate and period are message[1][1] and message[1][2].
Inners ==
  {[n |-> k, nested |-> FALSE, rate |-> p[1], period |-> p[2]] :
     k \in {1, 2, 3}, p \in TickerPairs}
  \cup {[n |-> 1, nested |-> TRUE, rate |-> 0, period |-> 0], NoInner}

Dict(e, p, s, c) ==
  [t |-> "dict", event |-> e, platform |-> p, status |-> s, chansym |-> c]

List(n, c, g, i, w, o, s) ==
  [t |-> "list", len |-> n, ch |-> c, tag |-> g, inner |-> i, wallet |-> w,
   offer |-> o, snap |-> s]

DictMessages ==
  { Dict("absent", "absent", "absent", FALSE),
    Dict("absent", "status1", "OK", TRUE),
    Dict("error", "absent", "absent", FALSE),
    Dict("error", "status1", "OK", TRUE),
    Dict("info", "status1", "absent", FALSE),
    Dict("info", "status0", "absent", FALSE),
    Dict("info", "nostatus", "absent", FALSE),
    Dict("info", "absent", "absent", FALSE),
    Dict("info", "scalar", "absent", FALSE),
    Dict("auth", "absent", "OK", FALSE),
    Dict("auth", "absent", "FAILED", FALSE),
    Dict("auth", "absent", "absent", FALSE),
    Dict("subscribed", "absent", "absent", TRUE),
    Dict("subscribed", "absent", "absent", FALSE),
    Dict("pong", "absent", "absent", FALSE) }

ScalarMessages == {[t |-> "scalar"], [t |-> "null"]}

ShortLists ==
  {List(0, 0, "none", NoInner, NoWallet, NoOffer, <<>>)}
  \cup {List(1, c, "none", NoInner, NoWallet, NoOffer, <<>>) : c \in Channels}

TaggedLists ==
  {List(2, c, g, NoInner, NoWallet, NoOffer, <<>>) : c \in Channels, g \in Tags}

Tickers ==
  {List(2, c, "LIST", i, NoWallet, NoOffer, <<>>) : c \in Channels, i \in Inners}

WalletUpdates ==
  {List(3, c, "wu", NoInner, w, NoOffer, <<>>) : c \in Channels, w \in Wallets}

OfferUpdates ==
  {List(3, 0, g, NoInner, NoWallet, o, <<>>) :
     g \in {"fon", "fou", "foc"}, o \in OfferRecords}
  \cup {List(3, 5, "fou", NoInner, NoWallet, o, <<>>) : o \in ActiveRecords}

Snapshots ==
  {List(3, 0, "fos", NoInner, NoWallet, NoOffer, s) :
     s \in SeqsUpTo(OfferRecords, MaxSnapLen)}
  \cup {List(3, 5, "fos", NoInner, NoWallet, NoOffer, <<o>>) : o \in ActiveRecords}

Messages ==
  DictMessages \cup ScalarMessages \cup ShortLists \cup TaggedLists
  \cup Tickers \cup WalletUpdates \cup OfferUpdates \cup Snapshots

\* The message without the offer records of its payload message[2].
Header(m) ==
  IF m.t = "list"
  THEN [m EXCEPT !.offer = NoOffer, !.snap = <<>>]
  ELSE m

NoHeader == [t |-> "none"]

----------------------------------------------------------------------------
(* The classifier: each predicate yields "T", "F" or, when evaluating it   *)
(* raises (KeyError, IndexError, TypeError), "X".                          *)

And3(a, b) == IF a = "T" THEN b ELSE a
Bool3(b) == IF b THEN "T" ELSE "F"

is_dict(message) == message.t = "dict"
is_list(message) == message.t = "list"

\* message['event'] raises KeyError when the key is missing.
get_event(message) == IF message.event = "absent" THEN "X" ELSE message.event

\* message[1] raises IndexError on a list shorter than two.
get_type(message) ==
  IF message.len < 2 THEN "X" ELSE message.tag

EventIs(message, e) ==
  IF get_event(message) = "X" THEN "X" ELSE Bool3(get_event(message) = e)

TypeIs(message, g) ==
  IF get_type(message) = "X" THEN "X" ELSE Bool3(get_type(message) = g)

\* message[0] on a list: IndexError when it is empty.
ChannelIs0(message) ==
  IF message.len < 1 THEN "X" ELSE Bool3(message.ch = 0)
ChannelNot0(message) ==
  IF message.len < 1 THEN "X" ELSE Bool3(message.ch # 0)

is_connected(message) ==
  And3(Bool3(is_dict(message)),
  And3(EventIs(message, "info"),
  And3(Bool3(message.platform # "absent"),
  And3(IF message.platform = "scalar" THEN "X"
       ELSE Bool3(message.platform \in {"status0", "status1"}),
       Bool3(message.platform = "status1")))))

is_authenticated(message) ==
  And3(Bool3(is_dict(message)),
  And3(EventIs(message, "auth"),
       IF message.status = "absent" THEN "X" ELSE Bool3(message.status = "OK")))

is_error(message) ==
  And3(Bool3(is_dict(message)), EventIs(message, "error"))

is_subscribed(message) ==
  And3(Bool3(is_dict(message)), EventIs(message, "subscribed"))

is_heart_beat(message) ==
  And3(Bool3(is_list(message)), TypeIs(message, "hb"))

is_wallet_update(message) ==
  And3(Bool3(is_list(message)), TypeIs(message, "wu"))

is_funding_offer_snapshot(message) ==
  And3(Bool3(is_list(message)),
  And3(ChannelIs0(message), TypeIs(message, "fos")))

is_funding_offer_update(message) ==
  And3(Bool3(is_list(message)),
  And3(ChannelIs0(message),
       IF get_type(message) = "X" THEN "X"
       ELSE Bool3(get_type(message) \in {"fon", "fou", "foc"})))

is_public_funding_ticker(message) ==
  And3(Bool3(is_list(message)),
  And3(ChannelNot0(message),
  And3(IF message.len < 2 THEN "X" ELSE Bool3(message.tag = "LIST"),
       IF message.inner.n = 0 THEN "X" ELSE Bool3(~message.inner.nested))))

\* One step of the if/elif chain of dispatch: a predicate that holds takes
\* its branch, one that raises ends the chain, one that fails goes on.
Elif(test, branch, rest) ==
  IF test = "T" THEN branch ELSE IF test = "X" THEN "RAISE" ELSE rest

Branch(message) ==
  Elif(is_error(message), "error",
  Elif(is_connected(message), "connected",
  Elif(is_authenticated(message), "authenticated",
  Elif(is_subscribed(message), "subscribed",
  Elif(is_heart_beat(message), "heart_beat",
  Elif(is_wallet_update(message), "wallet_update",
  Elif(is_funding_offer_update(message), "funding_offer_update",
  Elif(is_funding_offer_snapshot(message), "funding_offer_snapshot",
  Elif(is_public_funding_ticker(message), "public_funding_ticker",
       "unrecognized")))))))))

----------------------------------------------------------------------------
(* The offer ledger.  active_offers is a Python dict: a sequence of        *)
(* entries in insertion order, one per key.                                *)

Entry(r) == [id |-> r.id, time |-> r.time, amount |-> r.amount, rate |-> r.rate]

Keys(offers) == {offers[i].id : i \in 1..Len(offers)}

IndexOf(offers, id) ==
  IF id \in Keys(offers)
  THEN CHOOSE i \in 1..Len(offers) : offers[i].id = id
  ELSE 0

\* A slip: active_offers = {id: offer} for active_offers[id] = offer.
update_offer_only(offers, r) ==
  IF r.status # "ACTIVE"
  THEN SelectSeq(offers, LAMBDA e : e.id # r.id)
  ELSE <<Entry(r)>>

\* A slip: the nested if flattened, so that a closed record of an unknown id
\* falls into the else branch and is stored.
update_offer_flat(offers, r) ==
  IF r.status # "ACTIVE" /\ r.id \in Keys(offers)
  THEN SelectSeq(offers, LAMBDA e : e.id # r.id)
  ELSE IF r.id \in Keys(offers)
       THEN [offers EXCEPT ![IndexOf(offers, r.id)] = Entry(r)]
       ELSE Append(offers, Entry(r))

\* update_offer on a record of full length: a status other than ACTIVE
\* deletes the key when it is there, ACTIVE stores the entry (a dict keeps
\* the place of a key that is overwritten).
update_offer(offers, r) ==
  IF r.status # "ACTIVE"
  THEN SelectSeq(offers, LAMBDA e : e.id # r.id)
  ELSE IF r.id \in Keys(offers)
       THEN [offers EXCEPT ![IndexOf(offers, r.id)] = Entry(r)]
       ELSE Append(offers, Entry(r))

\* The loop of dispatch over the items of a snapshot; update_offer reads
\* message[14] before it writes, so a short record raises IndexError with
\* the items before it applied and the rest not.
RECURSIVE ApplySnapshot(_, _)
ApplySnapshot(offers, snap) ==
  IF snap = <<>> \/ Head(snap).short THEN offers
  ELSE ApplySnapshot(update_offer(offers, Head(snap)), Tail(snap))

SnapshotRaises(snap) == \E i \in 1..Len(snap) : snap[i].short

\* History: the last record update_offer was applied to, per id.
RECURSIVE NoteSnapshot(_, _)
NoteSnapshot(last, snap) ==
  IF snap = <<>> \/ Head(snap).short THEN last
  ELSE NoteSnapshot([last EXCEPT ![Head(snap).id] = Head(snap)], Tail(snap))

----------------------------------------------------------------------------
(* The decision pass.                                                      *)

Str(x) == <<"str", x>>                      \* str(x) in a payload

LoginMsg == [cmd |-> "auth"]
SubscribeMsg(channel) == [cmd |-> "subscribe", channel |-> channel, symbol |-> "fUSD"]
CancelMsg(id) == [cmd |-> "foc", id |-> id]
SubmitMsg(amount, rate, period) ==
  [cmd |-> "fon", amount |-> Str(amount), rate |-> Str(rate), period |-> period]

\* A slip: >= for >.
IsStaleOrEqual(ct, e) == (ct - e.time) >= max_offer_pending_time * 1000

\* age = (current_time - last_update_time) * 1e-3 > max_offer_pending_time
IsStale(ct, e) == (ct - e.time) > max_offer_pending_time * 1000

\* A slip: > for >=.
WantsSubmitStrict == funding_available_usd > min_offer_amount

\* if funding_available_usd >= min_offer_amount
WantsSubmit == funding_available_usd >= min_offer_amount

\* The first key at or after position from whose offer is cancelled, or 0.
NextStale(offers, ct, from) ==
  LET stale == {i \in from..Len(offers) : IsStale(ct, offers[i])}
  IN  IF stale = {} THEN 0 ELSE CHOOSE i \in stale : \A j \in stale : i <= j

\* Where make_offer_decision next awaits a send, scanning from position from.
Scan(ct, from) ==
  LET j == NextStale(active_offers, ct, from)
  IN  IF j > 0 THEN <<"cancel", j>>
      ELSE IF WantsSubmit THEN <<"submit", 0>>
      ELSE <<"done", 0>>

make_offer_decision(ct) ==
  /\ decided' = TRUE
  /\ current_time' = ct
  /\ pc' = Scan(ct, 1)[1]
  /\ pos' = Scan(ct, 1)[2]

----------------------------------------------------------------------------
(* The coroutine.                                                          *)

SendPcs == {"login", "sub_trades", "sub_tickers", "cancel", "submit"}

Init ==
  /\ argc \in ArgCounts
  /\ pc = "connecting"
  /\ lock = FALSE
  /\ funding_available_usd = funding_available_usd0
  /\ active_offers = <<>>
  /\ last_bid_rate = last_bid_rate0
  /\ last_bid_period = last_bid_period0
  /\ current_time = 0
  /\ pos = 0
  /\ sent = <<>>
  /\ hdr = NoHeader
  /\ ev = "none"
  /\ err = "none"
  /\ decided = FALSE
  /\ phase = "Closed"
  /\ lastRec = [i \in OfferIds |-> NoOffer]

\* An exception leaves dispatch, the lock and the connection and reaches the
\* except clause of connect.
Fail(kind) ==
  /\ pc' = "except"
  /\ lock' = FALSE
  /\ err' = kind
  /\ phase' = "Closed"

\* A slip: each message handled in a task of its own, without the lock.
CanReceiveAnytime == pc \in {"recv", "cancel", "submit"}

\* consume: the next message is taken only when the body of the loop has
\* run to its end, and under the lock.
CanReceive == pc = "recv" /\ ~lock

Take(message) ==
  /\ CanReceive
  /\ hdr' = Header(message)
  /\ ev' = Branch(message)

\* dispatch returned with nothing left to await.
Return ==
  /\ pc' = "done"
  /\ lock' = TRUE
  /\ err' = "none"

ConnectOK ==
  /\ pc = "connecting"
  /\ pc' = "recv"
  /\ phase' = "Unauthenticated"
  /\ UNCHANGED <<argc, lock, ledger, market, current_time, pos, sent, hdr, ev,
                 err, decided, lastRec>>

ConnectFail ==
  /\ pc = "connecting"
  /\ Fail("connect")
  /\ UNCHANGED <<argc, ledger, market, current_time, pos, sent, hdr, ev,
                 decided, lastRec>>

\* A slip: the except clause leaves the loop.
RetryBreak ==
  /\ pc = "except"
  /\ pc' = "exited"
  /\ UNCHANGED <<argc, lock, ledger, market, current_time, pos, sent, hdr, ev,
                 err, decided, phase, lastRec>>

\* except Exception: print, continue, the next websockets.connect.
Retry ==
  /\ pc = "except"
  /\ pc' = "connecting"
  /\ err' = "none"
  /\ hdr' = NoHeader
  /\ ev' = "none"
  /\ sent' = <<>>
  /\ decided' = FALSE
  /\ current_time' = 0
  /\ pos' = 0
  /\ UNCHANGED <<argc, lock, ledger, market, phase, lastRec>>

\* The connection closes normally: the async for ends, consume returns and
\* the while loop connects again.
CloseOK ==
  /\ CanReceive
  /\ pc' = "connecting"
  /\ phase' = "Closed"
  /\ UNCHANGED <<argc, lock, ledger, market, current_time, pos, sent, hdr, ev,
                 err, decided, lastRec>>

\* The connection breaks: the async for raises ConnectionClosedError.
CloseError ==
  /\ CanReceive
  /\ Fail("closed")
  /\ UNCHANGED <<argc, ledger, market, current_time, pos, sent, hdr, ev,
                 decided, lastRec>>

\* A frame that is not JSON: json.loads raises under the lock.
BadJson ==
  /\ CanReceive
  /\ Fail("json")
  /\ UNCHANGED <<argc, ledger, market, current_time, pos, sent, hdr, ev,
                 decided, lastRec>>

\* A predicate of the if/elif chain raises.
OnClassifyRaise(message) ==
  /\ Branch(message) = "RAISE"
  /\ Take(message)
  /\ Fail("classify")
  /\ UNCHANGED <<argc, ledger, market, current_time, pos, sent, decided, lastRec>>

\* A slip: an error event raised as an exception.
OnErrorRaise(message) ==
  /\ Branch(message) = "error"
  /\ Take(message)
  /\ Fail("body")
  /\ UNCHANGED <<argc, ledger, market, current_time, pos, sent, decided, lastRec>>

\* print(message)
OnError(message) ==
  /\ Branch(message) = "error"
  /\ Take(message)
  /\ Return
  /\ UNCHANGED <<argc, ledger, market, current_time, pos, sent, decided, phase,
                 lastRec>>

\* login: a wrong argument count exits (SystemExit is no Exception and ends
\* the program); reading the configuration file may raise; otherwise the
\* authentication request is awaited.
OnConnected(message) ==
  /\ Branch(message) = "connected"
  /\ Take(message)
  /\ IF argc # ExpectedArgc
     THEN /\ pc' = "exited"
          /\ lock' = FALSE
          /\ err' = "exit"
          /\ phase' = "Closed"
     ELSE \/ Fail("config")
          \/ /\ pc' = "login"
             /\ lock' = TRUE
             /\ err' = "none"
             /\ phase' = IF phase = "Unauthenticated" THEN "AwaitingAuth" ELSE phase
  /\ UNCHANGED <<argc, ledger, market, current_time, pos, sent, decided, lastRec>>

OnAuthenticated(message) ==
  /\ Branch(message) = "authenticated"
  /\ Take(message)
  /\ Return
  /\ phase' = IF phase = "AwaitingAuth" THEN "Ready" ELSE phase
  /\ UNCHANGED <<argc, ledger, market, current_time, pos, sent, decided, lastRec>>

\* The print reads message['channel'] and message['symbol'].
OnSubscribed(message) ==
  /\ Branch(message) = "subscribed"
  /\ Take(message)
  /\ IF message.chansym THEN Return /\ UNCHANGED phase ELSE Fail("body")
  /\ UNCHANGED <<argc, ledger, market, current_time, pos, sent, decided, lastRec>>

\* A slip: the public heart beat not skipped.
SkipNoHeartBeat(message) == FALSE

\* if (message[0] != 0): return
SkipHeartBeat(message) == message.ch # 0

OnHeartBeat(message) ==
  /\ Branch(message) = "heart_beat"
  /\ Take(message)
  /\ lock' = TRUE
  /\ err' = "none"
  /\ IF SkipHeartBeat(message)
     THEN pc' = "done" /\ UNCHANGED <<current_time, pos, decided>>
     ELSE \E ct \in ClockValues : make_offer_decision(ct)
  /\ UNCHANGED <<argc, ledger, market, sent, phase, lastRec>>

\* A slip: the currency not looked at.
WalletOutcomeAnyCurrency(message) ==
  IF message.len < 3 \/ message.wallet.n < 1 THEN "raise"
  ELSE IF message.wallet.wtype # "funding" THEN "skip"
  ELSE IF message.wallet.n < 5 THEN "raise"
  ELSE "ok"

\* "ok": the balance is overwritten; "skip": another wallet; "raise": an
\* index of message or message[2] is out of range.
WalletOutcome(message) ==
  IF message.len < 3 \/ message.wallet.n < 1 THEN "raise"
  ELSE IF message.wallet.wtype # "funding" THEN "skip"
  ELSE IF message.wallet.n < 2 THEN "raise"
  ELSE IF message.wallet.cur # "USD" THEN "skip"
  ELSE IF message.wallet.n < 5 THEN "raise"
  ELSE "ok"

update_funding_available_usd(message) ==
  funding_available_usd' = message.wallet.bal

OnWalletUpdate(message) ==
  /\ Branch(message) = "wallet_update"
  /\ Take(message)
  /\ CASE WalletOutcome(message) = "ok" ->
            Return /\ update_funding_available_usd(message) /\ UNCHANGED phase
       [] WalletOutcome(message) = "skip" ->
            Return /\ UNCHANGED <<funding_available_usd, phase>>
       [] OTHER ->
            Fail("body") /\ UNCHANGED funding_available_usd
  /\ UNCHANGED <<argc, ledger, last_bid_rate, last_bid_period, current_time, pos,
                 sent, decided, lastRec>>

OnFundingOfferUpdate(message) ==
  /\ Branch(message) = "funding_offer_update"
  /\ Take(message)
  /\ IF message.len < 3 \/ message.offer.short
     THEN Fail("body") /\ UNCHANGED <<active_offers, lastRec>>
     ELSE /\ Return
          /\ active_offers' = update_offer(active_offers, message.offer)
          /\ lastRec' = [lastRec EXCEPT ![message.offer.id] = message.offer]
          /\ UNCHANGED phase
  /\ UNCHANGED <<argc, market, current_time, pos, sent, decided>>

OnFundingOfferSnapshot(message) ==
  /\ Branch(message) = "funding_offer_snapshot"
  /\ Take(message)
  /\ IF message.len < 3
     THEN Fail("body") /\ UNCHANGED <<active_offers, lastRec>>
     ELSE /\ active_offers' = ApplySnapshot(active_offers, message.snap)
          /\ lastRec' = NoteSnapshot(lastRec, message.snap)
          /\ IF SnapshotRaises(message.snap)
             THEN Fail("body")
             ELSE Return /\ UNCHANGED phase
  /\ UNCHANGED <<argc, market, current_time, pos, sent, decided>>

\* A slip: the pass runs on the values of the ticker before.
update_public_ticker_late(message) ==
  UNCHANGED <<last_bid_rate, last_bid_period>>

\* update_public_ticker on a payload of three elements or more.
update_public_ticker(message) ==
  /\ last_bid_rate' = message.inner.rate
  /\ last_bid_period' = message.inner.period

\* update_public_ticker assigns last_bid_rate from message[1][1], then
\* last_bid_period from message[1][2]; either index may be out of range.
OnPublicFundingTicker(message) ==
  /\ Branch(message) = "public_funding_ticker"
  /\ Take(message)
  /\ CASE message.inner.n < 2 ->
            /\ Fail("body")
            /\ UNCHANGED <<last_bid_rate, last_bid_period, current_time, pos, decided>>
       [] message.inner.n = 2 ->
            /\ last_bid_rate' = message.inner.rate
            /\ Fail("body")
            /\ UNCHANGED <<last_bid_period, current_time, pos, decided>>
       [] OTHER ->
            /\ update_public_ticker(message)
            /\ lock' = TRUE
            /\ err' = "none"
            /\ \E ct \in ClockValues : make_offer_decision(ct)
            /\ UNCHANGED phase
  /\ UNCHANGED <<argc, ledger, funding_available_usd, sent, lastRec>>

\* No branch of dispatch matches.
OnUnrecognized(message) ==
  /\ Branch(message) = "unrecognized"
  /\ Take(message)
  /\ Return
  /\ UNCHANGED <<argc, ledger, market, current_time, pos, sent, decided, phase,
                 lastRec>>

\* await ws.send(...) of login, then of the two subscriptions.
SendLogin ==
  /\ pc = "login"
  /\ sent' = Append(sent, LoginMsg)
  /\ pc' = "sub_trades"
  /\ UNCHANGED <<argc, lock, ledger, market, current_time, pos, hdr, ev, err,
                 decided, phase, lastRec>>

SendSubscribeTrades ==
  /\ pc = "sub_trades"
  /\ sent' = Append(sent, SubscribeMsg("trades"))
  /\ pc' = "sub_tickers"
  /\ UNCHANGED <<argc, lock, ledger, market, current_time, pos, hdr, ev, err,
                 decided, phase, lastRec>>

SendSubscribeTickers ==
  /\ pc = "sub_tickers"
  /\ sent' = Append(sent, SubscribeMsg("ticker"))
  /\ pc' = "done"
  /\ UNCHANGED <<argc, lock, ledger, market, current_time, pos, hdr, ev, err,
                 decided, phase, lastRec>>

\* A slip: the submit indented into the loop over the keys.
SendCancelAndSubmit ==
  /\ pc = "cancel"
  /\ sent' = sent \o <<CancelMsg(active_offers[pos].id)>>
               \o (IF WantsSubmit
                   THEN <<SubmitMsg(min_offer_amount, last_bid_rate, last_bid_period)>>
                   ELSE <<>>)
  /\ pc' = Scan(current_time, pos + 1)[1]
  /\ pos' = Scan(current_time, pos + 1)[2]
  /\ UNCHANGED <<argc, lock, ledger, market, current_time, hdr, ev, err, decided,
                 phase, lastRec>>

\* await cancel_offer(ws, id), then on with the loop over the keys.
SendCancel ==
  /\ pc = "cancel"
  /\ sent' = Append(sent, CancelMsg(active_offers[pos].id))
  /\ pc' = Scan(current_time, pos + 1)[1]
  /\ pos' = Scan(current_time, pos + 1)[2]
  /\ UNCHANGED <<argc, lock, ledger, market, current_time, hdr, ev, err, decided,
                 phase, lastRec>>

\* A slip: the balance taken as spent by the submit.
SendSubmitAndSpend ==
  /\ pc = "submit"
  /\ sent' = Append(sent, SubmitMsg(min_offer_amount, last_bid_rate, last_bid_period))
  /\ pc' = "done"
  /\ funding_available_usd' = funding_available_usd - min_offer_amount
  /\ UNCHANGED <<argc, lock, ledger, last_bid_rate, last_bid_period, current_time,
                 pos, hdr, ev, err, decided, phase, lastRec>>

\* await submit_offer(ws, min_offer_amount, last_bid_rate, last_bid_period)
SendSubmit ==
  /\ pc = "submit"
  /\ sent' = Append(sent, SubmitMsg(min_offer_amount, last_bid_rate, last_bid_period))
  /\ pc' = "done"
  /\ UNCHANGED <<argc, lock, ledger, market, current_time, pos, hdr, ev, err,
                 decided, phase, lastRec>>

\* ws.send raises ConnectionClosed.
SendFail ==
  /\ pc \in SendPcs
  /\ Fail("send")
  /\ UNCHANGED <<argc, ledger, market, current_time, pos, sent, hdr, ev, decided,
                 lastRec>>

\* The body of the async for ends: the lock is released and the loop waits
\* for the next message.
Release ==
  /\ pc = "done"
  /\ pc' = "recv"
  /\ lock' = FALSE
  /\ hdr' = NoHeader
  /\ ev' = "none"
  /\ sent' = <<>>
  /\ decided' = FALSE
  /\ current_time' = 0
  /\ pos' = 0
  /\ UNCHANGED <<argc, ledger, market, err, phase, lastRec>>

Branches ==
  {"RAISE", "error", "connected", "authenticated", "subscribed", "heart_beat",
   "wallet_update", "funding_offer_update", "funding_offer_snapshot",
   "public_funding_ticker", "unrecognized"}

\* The messages by the branch of dispatch they take.
ByBranch == [b \in Branches |-> {m \in Messages : Branch(m) = b}]

dispatch ==
  \/ CanReceive /\ \E message \in ByBranch["RAISE"] : OnClassifyRaise(message)
  \/ CanReceive /\ \E message \in ByBranch["error"] : OnError(message)
  \/ CanReceive /\ \E message \in ByBranch["connected"] : OnConnected(message)
  \/ CanReceive /\ \E message \in ByBranch["authenticated"] : OnAuthenticated(message)
  \/ CanReceive /\ \E message \in ByBranch["subscribed"] : OnSubscribed(message)
  \/ CanReceive /\ \E message \in ByBranch["heart_beat"] : OnHeartBeat(message)
  \/ CanReceive /\ \E message \in ByBranch["wallet_update"] : OnWalletUpdate(message)
  \/ CanReceive /\ \E message \in ByBranch["funding_offer_update"] : OnFundingOfferUpdate(message)
  \/ CanReceive /\ \E message \in ByBranch["funding_offer_snapshot"] : OnFundingOfferSnapshot(message)
  \/ CanReceive /\ \E message \in ByBranch["public_funding_ticker"] : OnPublicFundingTicker(message)
  \/ CanReceive /\ \E message \in ByBranch["unrecognized"] : OnUnrecognized(message)

\* consume: async for message in ws: async with lock: await dispatch(...)
consume ==
  \/ CloseOK
  \/ CloseError
  \/ BadJson
  \/ dispatch
  \/ SendLogin
  \/ SendSubscribeTrades
  \/ SendSubscribeTickers
  \/ SendCancel
  \/ SendSubmit
  \/ SendFail
  \/ Release

\* connect: while True: try: connect, consume; except Exception: continue
connect ==
  \/ ConnectOK
  \/ ConnectFail
  \/ Retry

Next == connect \/ consume

Spec == Init /\ [][Next]_vars

\* The except clause runs to its continue without awaiting anything, so the
\* coroutine that reached it goes on to the next connection attempt.
FairSpec == Spec /\ WF_vars(Retry)

----------------------------------------------------------------------------
(* Vocabulary of the properties.                                           *)

InitialState ==
  /\ active_offers = <<>>
  /\ funding_available_usd = funding_available_usd0
  /\ last_bid_rate = last_bid_rate0
  /\ last_bid_period = last_bid_period0

\* A message has just been taken from the socket by this step.
Taken == pc = "recv" /\ hdr' # NoHeader

Commands == SelectSeq(sent, LAMBDA m : m.cmd \in {"foc", "fon"})
Submits == SelectSeq(sent, LAMBDA m : m.cmd = "fon")
CancelsOf(id) == SelectSeq(sent, LAMBDA m : m = [cmd |-> "foc", id |-> id])
Cancels == SelectSeq(sent, LAMBDA m : m.cmd = "foc")

\* [0, "hb"]: a sequence with channel id 0 and the tag "hb".
PrivateHeartBeat(h) == h.t = "list" /\ h.len >= 2 /\ h.ch = 0 /\ h.tag = "hb"
PublicHeartBeat(h) == h.t = "list" /\ h.len >= 2 /\ h.ch # 0 /\ h.tag = "hb"

\* [chanId, [frr, bid, period, ...]]: channel id not 0, the second element a
\* sequence whose first element is a scalar.
PublicTicker(h) ==
  h.t = "list" /\ h.len >= 2 /\ h.ch # 0 /\ h.tag = "LIST"
  /\ h.inner.n >= 1 /\ ~h.inner.nested

\* dispatch has not raised on the current message.
Running == pc \in {"done"} \cup SendPcs

----------------------------------------------------------------------------
(* C1.  Whatever the shape of a decoded message (a keyed record with or    *)
(* without "event", a sequence of any length, a scalar, null), dispatch    *)
(* does not raise while classifying it; and a message that matches no      *)
(* variant changes neither the ledger nor the market state and sends       *)
(* nothing.                                                                *)
C1_NeverRaises ==
  [][Taken =>
       /\ err' # "classify"
       /\ (ev' = "unrecognized" => UNCHANGED <<ledger, market>> /\ sent' = <<>>)]_vars

----------------------------------------------------------------------------
(* C2.  make_offer_decision is entered only for a private heart beat or a  *)
(* public funding ticker, it is entered for every such message that        *)
(* dispatch handles without raising, no cancel or submit command is sent   *)
(* for any other message, and a heart beat with a nonzero channel id sends *)
(* nothing and changes neither the ledger nor the market state.            *)
C2_Triggers ==
  /\ decided => PrivateHeartBeat(hdr) \/ PublicTicker(hdr)
  /\ Running /\ (PrivateHeartBeat(hdr) \/ PublicTicker(hdr)) => decided
  /\ Commands # <<>> => decided
  /\ PublicHeartBeat(hdr) => sent = <<>> /\ pc = "done"

C2_TriggersOnly ==
  [][/\ C2_Triggers'
     /\ (Taken /\ PublicHeartBeat(hdr') => UNCHANGED <<ledger, market>>)]_vars

\* A public heart beat was handled while an offer was stale and the balance
\* would have allowed a submit.
C2_Witness ==
  /\ pc = "done"
  /\ PublicHeartBeat(hdr)
  /\ funding_available_usd >= min_offer_amount
  /\ \E i \in 1..Len(active_offers) : 121000 - active_offers[i].time > 120000

----------------------------------------------------------------------------
(* C3.  In a decision pass every submit command sent is for the amount     *)
(* min_offer_amount at the current last_bid_rate for the current           *)
(* last_bid_period, at most one is sent, none is sent when the balance is  *)
(* below min_offer_amount, and a pass that returns with the balance at or  *)
(* above min_offer_amount has sent exactly one.                            *)
C3_Submit ==
  /\ \A i \in 1..Len(Submits) :
       /\ Submits[i].amount = Str(min_offer_amount)
       /\ Submits[i].rate = Str(last_bid_rate)
       /\ Submits[i].period = last_bid_period
  /\ Len(Submits) <= 1
  /\ funding_available_usd < min_offer_amount => Len(Submits) = 0
  /\ decided /\ pc = "done" /\ funding_available_usd >= min_offer_amount
       => Len(Submits) = 1

\* A pass returned with the balance exactly at the minimum.
C3_Witness ==
  /\ decided
  /\ pc = "done"
  /\ funding_available_usd = min_offer_amount
  /\ Len(Submits) = 1
  /\ Len(Cancels) >= 1

----------------------------------------------------------------------------
(* C4.  In a decision pass a cancel command is sent only for an id of the  *)
(* ledger whose offer is more than 120 s older than the time the pass      *)
(* read, at most once per id, and a pass that returns has sent exactly one *)
(* for every such id.                                                      *)
AgeMs(e) == current_time - e.time

C4_Cancel ==
  /\ \A i \in 1..Len(Cancels) : Cancels[i].id \in Keys(active_offers)
  /\ \A i \in 1..Len(active_offers) :
       LET e == active_offers[i]
       IN  /\ Len(CancelsOf(e.id)) <= 1
           /\ AgeMs(e) <= 120 * 1000 => Len(CancelsOf(e.id)) = 0
           /\ decided /\ pc = "done" /\ AgeMs(e) > 120 * 1000
                => Len(CancelsOf(e.id)) = 1
  /\ ~decided => Cancels = <<>>

\* A pass returned with one offer aged 121 s, cancelled, and one aged
\* exactly 120 s, kept.
C4_Witness ==
  /\ decided
  /\ pc = "done"
  /\ Len(active_offers) = 2
  /\ \E i, j \in 1..2 :
       /\ AgeMs(active_offers[i]) = 121000
       /\ AgeMs(active_offers[j]) = 120000
       /\ Len(CancelsOf(active_offers[i].id)) = 1
       /\ Len(CancelsOf(active_offers[j].id)) = 0

----------------------------------------------------------------------------
(* C5.  An offer id is a key of the ledger exactly when the last record    *)
(* applied for it had the status ACTIVE, and its entry then holds the      *)
(* time, amount and rate of that record; the ledger holds one entry per    *)
(* key.                                                                    *)
C5_Ledger ==
  /\ Len(active_offers) = Cardinality(Keys(active_offers))
  /\ \A id \in OfferIds :
       /\ id \in Keys(active_offers) <=> lastRec[id].status = "ACTIVE"
       /\ id \in Keys(active_offers) =>
            active_offers[IndexOf(active_offers, id)] =
              [id |-> id, time |-> lastRec[id].time,
               amount |-> lastRec[id].amount, rate |-> lastRec[id].rate]

\* A snapshot was applied after which id 1, last reported EXECUTED, is not
\* in the ledger and id 2, last reported ACTIVE, is.
C5_Witness ==
  /\ pc = "done"
  /\ ev = "funding_offer_snapshot"
  /\ lastRec[1].status = "EXECUTED"
  /\ lastRec[2].status = "ACTIVE"
  /\ Keys(active_offers) = {2}

----------------------------------------------------------------------------
(* C6.  Whatever the ledger holds when a message arrives, applying a       *)
(* snapshot to it twice gives a ledger equal, as a dict (the same keys     *)
(* with the same entries), to the one that applying it once gives, for     *)
(* every snapshot, those that name an id more than once included.          *)
SnapshotBodies == SeqsUpTo(OfferRecords, MaxSnapLen)

\* What dict equality compares: the entries, not their insertion order.
Items(offers) == {offers[i] : i \in 1..Len(offers)}

C6_Idempotent ==
  pc = "recv" =>
    \A snap \in SnapshotBodies :
      Items(ApplySnapshot(ApplySnapshot(active_offers, snap), snap))
        = Items(ApplySnapshot(active_offers, snap))

\* The ledger is not empty and a snapshot that first reports an id ACTIVE
\* and then EXECUTED changes it.
C6_Witness ==
  /\ pc = "recv"
  /\ active_offers # <<>>
  /\ \E snap \in SnapshotBodies :
       /\ Len(snap) = 2
       /\ snap[1].id = snap[2].id
       /\ snap[1].status = "ACTIVE"
       /\ snap[2].status = "EXECUTED"
       /\ ~snap[1].short
       /\ Items(ApplySnapshot(active_offers, snap)) # Items(active_offers)

----------------------------------------------------------------------------
(* C7.  The handling of a message holds the lock from the moment the       *)
(* message is taken until dispatch returns or raises, a message is taken   *)
(* only when no other is being handled, and while a decision pass awaits   *)
(* a send neither the ledger nor the market state changes.                 *)
C7_Serial ==
  [][/\ (pc \in SendPcs \cup {"done"} => lock)
     /\ (hdr' # hdr /\ hdr' # NoHeader => pc = "recv" /\ ~lock)
     /\ (pc \in {"cancel", "submit"} => UNCHANGED <<ledger, market>>)]_vars

\* A pass has sent a cancel command and awaits the send of the submit.
C7_Witness ==
  /\ pc = "submit"
  /\ lock
  /\ Len(Cancels) >= 1

----------------------------------------------------------------------------
(* C8.  A cancel or submit command is sent on a connection only after a    *)
(* Connected and then an Authenticated event were received on it.          *)
C8_OnlyWhenReady ==
  Running /\ Commands # <<>> => phase = "Ready"

----------------------------------------------------------------------------
(* C9.  Every connection starts with the ledger empty and the balance,     *)
(* the bid rate and the bid period at their initial values.                *)
C9_FreshOnConnect ==
  [][pc = "connecting" /\ pc' = "recv" => InitialState']_vars

----------------------------------------------------------------------------
(* C10.  Every failure while connected (the connection breaks, a frame is  *)
(* not JSON, a send fails, the handling of a message raises) leaves the    *)
(* lock and the connection and reaches the except clause, and from the     *)
(* except clause the program always goes on to a new connection attempt.   *)
Failures == {"closed", "json", "send", "classify", "body", "config"}

C10_Reconnects ==
  /\ [](err \in Failures => pc = "except" /\ ~lock /\ phase = "Closed")
  /\ [][pc = "except" => pc' = "connecting"]_vars
  /\ (pc = "except" ~> pc = "connecting")

\* A send failed in a decision pass after a cancel command had been sent.
C10_Witness ==
  /\ pc = "except"
  /\ err = "send"
  /\ decided
  /\ Len(Cancels) >= 1

----------------------------------------------------------------------------
(* C11.  A program started with a wrong argument count opens no            *)
(* connection: it stops on the usage error before the first connection     *)
(* attempt.                                                                *)
C11_UsageBeforeConnect ==
  argc # ExpectedArgc => phase = "Closed"

----------------------------------------------------------------------------
(* C12.  Among the commands sent for one message no cancel command comes   *)
(* after a submit command, and at most one submit command is sent.         *)
C12_CancelsFirst ==
  /\ \A i, j \in 1..Len(sent) :
       i < j /\ sent[i].cmd = "fon" => sent[j].cmd # "foc"
  /\ Cardinality({i \in 1..Len(sent) : sent[i].cmd = "fon"}) <= 1

\* A pass returned after two cancel commands and then one submit command.
C12_Witness ==
  /\ decided
  /\ pc = "done"
  /\ Len(sent) = 3
  /\ sent[1].cmd = "foc"
  /\ sent[2].cmd = "foc"
  /\ sent[3].cmd = "fon"

----------------------------------------------------------------------------
(* C13.  Whatever the ledger holds when a message arrives, every entry of  *)
(* it whose id no record of a snapshot names is in the ledger, with the    *)
(* same time, amount and rate, after the snapshot is applied, for every    *)
(* snapshot.                                                               *)
NamedIn(snap) == {snap[k].id : k \in 1..Len(snap)}

C13_Additive ==
  pc = "recv" =>
    \A snap \in SnapshotBodies :
      \A e \in Items(active_offers) :
        e.id \notin NamedIn(snap) => e \in Items(ApplySnapshot(active_offers, snap))

\* The ledger holds ids 1 and 2 and a snapshot that names only id 2 takes
\* id 2 out of the ledger and keeps id 1.
C13_Witness ==
  /\ pc = "recv"
  /\ Keys(active_offers) = {1, 2}
  /\ \E snap \in SnapshotBodies :
       /\ snap # <<>>
       /\ NamedIn(snap) = {2}
       /\ Keys(ApplySnapshot(active_offers, snap)) = {1}

----------------------------------------------------------------------------
(* C14.  A sequence message whose channel id is not 0 is not handled as a  *)
(* wallet update, an offer snapshot or an offer update, and changes        *)
(* neither the balance nor the ledger.                                     *)
AccountBranches ==
  {"wallet_update", "funding_offer_snapshot", "funding_offer_update"}

C14_PrivateOnly ==
  [][Taken /\ hdr'.t = "list" /\ hdr'.len >= 1 /\ hdr'.ch # 0 =>
       /\ ev' \notin AccountBranches
       /\ UNCHANGED <<funding_available_usd, active_offers>>]_vars

----------------------------------------------------------------------------
(* C15.  A wallet update that is handled without raising sets the balance  *)
(* to the balance it reports if its wallet type is "funding" and its       *)
(* currency is "USD", and leaves the balance as it was otherwise; no       *)
(* wallet update changes the ledger, the bid rate or the bid period, or    *)
(* sends a command.                                                        *)
C15_WalletUpdate ==
  [][Taken /\ ev' = "wallet_update" =>
       /\ UNCHANGED <<active_offers, last_bid_rate, last_bid_period>>
       /\ sent' = <<>>
       /\ pc' \notin SendPcs
       /\ IF pc' = "done" /\ hdr'.wallet.wtype = "funding"
             /\ hdr'.wallet.cur = "USD"
          THEN funding_available_usd' = hdr'.wallet.bal
          ELSE UNCHANGED funding_available_usd]_vars

\* A wallet update for the funding wallet in BTC was handled and the
\* balance, set by a wallet update before, is not the one it reports.
C15_Witness ==
  /\ pc = "done"
  /\ ev = "wallet_update"
  /\ hdr.wallet.n = 5
  /\ hdr.wallet.wtype = "funding"
  /\ hdr.wallet.cur = "BTC"
  /\ funding_available_usd # funding_available_usd0
  /\ hdr.wallet.bal # funding_available_usd

----------------------------------------------------------------------------
(* C16.  A Connected event received on a connection on which the           *)
(* handshake was already sent (in AwaitingAuth or Ready) does not start    *)
(* the handshake again.                                                    *)
C16_HandshakeOnce ==
  [][Taken /\ ev' = "connected" /\ phase \in {"AwaitingAuth", "Ready"} =>
       pc' # "login"]_vars

----------------------------------------------------------------------------
(* C17.  A keyed record with event "error" or event "subscribed" changes   *)
(* neither the ledger nor the market state and sends nothing, and          *)
(* dispatch returns from it, so that the loop goes on to the next message; *)
(* a keyed record with event "error" takes the error branch whatever else  *)
(* it carries.                                                             *)
Reported(h) == h.t = "dict" /\ h.event \in {"error", "subscribed"}

C17_NoEffect ==
  [][Taken /\ Reported(hdr') =>
       /\ ev' = hdr'.event
       /\ UNCHANGED <<ledger, market>>
       /\ sent' = <<>>
       /\ pc' = "done"]_vars

(* C17, amended.  As C17, with dispatch returning from every record with   *)
(* event "error" and from every record with event "subscribed" that        *)
(* carries the channel and the symbol.                                     *)
C17_NoEffectWellFormed ==
  [][Taken /\ Reported(hdr') =>
       /\ ev' = hdr'.event
       /\ UNCHANGED <<ledger, market>>
       /\ sent' = <<>>
       /\ pc' \notin SendPcs
       /\ (hdr'.event = "error" \/ hdr'.chansym => pc' = "done")]_vars

\* dispatch returned from an error record that also carries the fields of
\* a Connected event, of an Authenticated event and of a Subscribed one,
\* with the ledger and the balance not at their initial values.
C17_Witness ==
  /\ pc = "done"
  /\ ev = "error"
  /\ hdr = Dict("error", "status1", "OK", TRUE)
  /\ sent = <<>>
  /\ active_offers # <<>>
  /\ funding_available_usd # funding_available_usd0

----------------------------------------------------------------------------
(* C18.  A decision pass leaves the ledger, the balance, the bid rate and  *)
(* the bid period as they were when it started: no step of a pass and no   *)
(* return from dispatch changes them, an offer for which a cancel command  *)
(* was sent is still in the ledger, and a submit does not lower the        *)
(* balance.                                                                *)
C18_PassPure ==
  [][/\ (Taken /\ decided' => UNCHANGED <<active_offers, funding_available_usd>>)
     /\ (Taken /\ decided' /\ PrivateHeartBeat(hdr') => UNCHANGED <<ledger, market>>)
     /\ (decided => UNCHANGED <<ledger, market>>)
     /\ (\A i \in 1..Len(sent') :
           sent'[i].cmd = "foc" => sent'[i].id \in Keys(active_offers'))]_vars

\* A pass started by a ticker returned after a cancel command and a submit
\* command; the cancelled offer is in the ledger and the balance is the
\* minimum.
C18_Witness ==
  /\ decided
  /\ pc = "done"
  /\ PublicTicker(hdr)
  /\ Len(sent) = 2
  /\ sent[1].cmd = "foc"
  /\ sent[1].id \in Keys(active_offers)
  /\ sent[2].cmd = "fon"
  /\ funding_available_usd = min_offer_amount

----------------------------------------------------------------------------
(* C19.  Every submit command sent for a public ticker message carries     *)
(* the rate and the period of that message.                                *)
C19_TickerFirst ==
  PublicTicker(hdr) =>
    \A i \in 1..Len(sent) :
      sent[i].cmd = "fon" =>
        /\ sent[i].rate = Str(hdr.inner.rate)
        /\ sent[i].period = hdr.inner.period

\* A submit command was sent for the ticker (5, 7).
C19_Witness ==
  /\ pc = "done"
  /\ PublicTicker(hdr)
  /\ hdr.inner.rate = 5
  /\ hdr.inner.period = 7
  /\ sent # <<>>
  /\ sent[Len(sent)].cmd = "fon"

----------------------------------------------------------------------------
(* C20.  In every state the bid rate and the bid period are the initial    *)
(* pair or the rate and the period of one ticker message.                  *)
C20_OnePair ==
  <<last_bid_rate, last_bid_period>>
    \in {<<last_bid_rate0, last_bid_period0>>} \cup TickerPairs

====
